---- MODULE Spec2Model ----
(***************************************************************************)
(* Model of the pagination / review / deletion core of the smart email     *)
(* deletion assistant: EmailProcessor (src/src/email_processor.py) over    *)
(* EmailDatabase (src/src/database.py), GmailClient                        *)
(* (src/src/gmail_client.py) and GroqAnalyzer (src/src/groq_analyzer.py).  *)
(*                                                                         *)
(* The specifications share the state:                                     *)
(*   Spec          the controller: run_paginated_analysis,                 *)
(*                 continue_from_last_page and execute_user_decisions;     *)
(*   SpecWeb       the controller behind the web handler                   *)
(*                 execute_deletions (src/web_app.py);                     *)
(*   SpecFault     the controller with store writes that raise;            *)
(*   SpecStop      the same, over runs saved with the fallback analysis;   *)
(*   SpecDb        the store's public methods called directly;             *)
(*   SpecTick      the store with runs inserted within one second;         *)
(*   SpecProgress  the store with its progress queries;                    *)
(*   SpecFullPage  the controller on a mailbox whose first page is full;   *)
(*   SpecReview    analysis and a review that is eventually made.          *)
(***************************************************************************)
EXTENDS Integers, Sequences, FiniteSets, TLC

VARIABLES
    runs,       \* table analysis_runs; the row with id i is runs[i]
    rows,       \* table email_analysis, in insertion order
    deleted,    \* table deleted_emails, in insertion order
    trashed,    \* ids of the messages the mailbox has moved to trash
    last,       \* the most recent call: its inputs, what it did, its result
    before      \* the tables and the trash as they were when that call began

vars == << runs, rows, deleted, trashed, last, before >>

\* The three tables of the store.
store == [runs |-> runs, rows |-> rows, deleted |-> deleted]

\* The store and the mailbox's trash.
world == [runs |-> runs, rows |-> rows, deleted |-> deleted, trashed |-> trashed]

----------------------------------------------------------------------------
(* Bounds and values *)

\* No more than MaxRuns rows are ever inserted into analysis_runs: a call
\* that would insert one more is not taken.
MaxRuns == 2


\* Python None as a page token, and SQL NULL / Python None elsewhere.
NoToken == "none"
Null == "null"

\* No run: what get_pending_run returns as None, as a run id.
NoRun == 0

Min(a, b) == IF a < b THEN a ELSE b

----------------------------------------------------------------------------
(* Configuration and the mailbox *)

\* deletion_rules.protected_senders of the configuration: one entry, "bk".
ProtectedSenders == << <<"b", "k">> >>

\* A message as get_email_page returns it (date, snippet, is_unread and
\* labels are carried along unread by the core and are left out).
Msg(id, subject, sender) == [id |-> id, subject |-> subject, sender |-> sender]

E1 == Msg("e1", "s1", <<"x", "b", "k">>)
E2 == Msg("e2", "s2", <<"k", "b">>)
E3 == Msg("e3", "s3", <<"a", "b">>)
E4 == Msg("e4", "s4", <<"k", "x">>)
E5 == Msg("e5", "s5", <<"b", "k">>)

\* A message id that is in no page of the inbox.
ForeignId == "e9"

\* The inbox listing: the page each token yields and the token after it.
InboxPage(token) ==
    CASE token = NoToken -> [emails |-> <<E2, E1>>, next_page_token |-> "T1"]
      [] token = "T1"    -> [emails |-> <<E3, E4>>, next_page_token |-> "T2"]
      [] OTHER           -> [emails |-> <<E5>>, next_page_token |-> NoToken]

\* A fetch that goes on to the following page when there is one.
GetEmailPageChained(page_token, fetchOk) ==
    LET p == InboxPage(page_token)
        q == InboxPage(p.next_page_token)
    IN  IF p.next_page_token = NoToken
        THEN [emails |-> p.emails, next_page_token |-> NoToken,
              has_more |-> FALSE]
        ELSE [emails |-> p.emails \o q.emails,
              next_page_token |-> q.next_page_token,
              has_more |-> q.next_page_token # NoToken]

\* GmailClient.get_email_page: the page, or on any error the empty page
\* without a next token.
GetEmailPage(page_token, fetchOk) ==
    IF fetchOk
    THEN LET p == InboxPage(page_token)
         IN  [emails |-> p.emails,
              next_page_token |-> p.next_page_token,
              has_more |-> p.next_page_token # NoToken]
    ELSE [emails |-> <<>>, next_page_token |-> NoToken, has_more |-> FALSE]

\* pagination.page_size of the configuration, at its default.
PageSize == 50

\* A second mailbox: PageSize + 1 messages of senders that are not protected,
\* listed as one full page and a last page of one message.
FullInbox == [i \in 1..(PageSize + 1) |-> Msg(ToString(i), "s", <<"a">>)]

FullInboxPage(token) ==
    IF token = NoToken
    THEN [emails |-> SubSeq(FullInbox, 1, PageSize), next_page_token |-> "B1"]
    ELSE [emails |-> SubSeq(FullInbox, PageSize + 1, PageSize + 1),
          next_page_token |-> NoToken]

\* A fetch that reports more pages whenever the page has a message.
FullPageAlwaysMore(page_token, fetchOk) ==
    IF fetchOk
    THEN LET p == FullInboxPage(page_token)
         IN  [emails |-> p.emails,
              next_page_token |-> p.next_page_token,
              has_more |-> p.emails # <<>>]
    ELSE [emails |-> <<>>, next_page_token |-> NoToken, has_more |-> FALSE]

\* GmailClient.get_email_page on the second mailbox.
FullGetEmailPage(page_token, fetchOk) ==
    IF fetchOk
    THEN LET p == FullInboxPage(page_token)
         IN  [emails |-> p.emails,
              next_page_token |-> p.next_page_token,
              has_more |-> p.next_page_token # NoToken]
    ELSE [emails |-> <<>>, next_page_token |-> NoToken, has_more |-> FALSE]

----------------------------------------------------------------------------
(* EmailProcessor._apply_preprocessing_filters *)

\* Python's `p in s` on strings: p occurs in s as a contiguous substring.
IsSubstring(p, s) ==
    \E i \in 0..(Len(s) - Len(p)) : SubSeq(s, i + 1, i + Len(p)) = p

SenderIsProtected(email) ==
    \E k \in 1..Len(ProtectedSenders) :
        IsSubstring(ProtectedSenders[k], email.sender)

\* A filter that compares the sender with the protected entry for equality.
ApplyFiltersExactMatch(emails) ==
    SelectSeq(emails,
              LAMBDA e : \A k \in 1..Len(ProtectedSenders) :
                            ProtectedSenders[k] # e.sender)

ApplyPreprocessingFilters(emails) ==
    SelectSeq(emails, LAMBDA e : ~SenderIsProtected(e))

----------------------------------------------------------------------------
(* Python values *)

\* Python None where a dict is expected.
PyNone == [py_none |-> TRUE]

\* A JSON list where a dict is expected.
JsonList == [json_list |-> TRUE]

\* The empty dict {}.
EmptyDict == [k \in {} |-> Null]

\* dict.get(key, default)
DictGet(d, key, default) == IF key \in DOMAIN d THEN d[key] ELSE default

\* Python truthiness of a value that is None or a dict: `if not x`.
Falsy(x) == x = PyNone \/ DOMAIN x = {}

Ids(emails) == {emails[i].id : i \in 1..Len(emails)}

----------------------------------------------------------------------------
(* GroqAnalyzer *)

\* analyze_emails sends the first 30 emails only.
AnalyzeLimit == 30

EmailSummaries(emails) == SubSeq(emails, 1, Min(Len(emails), AnalyzeLimit))

\* Confidence is kept in tenths: 5 is 0.5.
FallbackConfidence == 5

\* An analyzer that gives up instead of falling back.
FallbackReturnsNone(emails) == PyNone

\* _create_fallback_analysis: every email is marked review.
CreateFallbackAnalysis(emails) ==
    [analysis |->
        [id \in Ids(emails) |->
            [action |-> "review", category |-> "other",
             confidence |-> FallbackConfidence,
             reason |-> "Fallback - requires manual review"]],
     summary |->
        [total_emails |-> Len(emails), recommended_deletions |-> 0,
         needs_review |-> Len(emails), keep |-> 0]]

\* What the hosted model may answer for a batch.  parses: the text is JSON;
\* value: the JSON value.
\*   "omit_first"      no entry for the first email, delete for the others,
\*                     and a summary that counts the entries given;
\*   "no_action"       an entry without 'action' for every email;
\*   "missing_fields"  JSON without the top-level field 'summary';
\*   "bad_shape"       JSON whose 'analysis' is a list;
\*   "unparseable"     text that is not JSON.
ResponseKinds ==
    {"omit_first", "no_action", "unparseable", "missing_fields", "bad_shape"}

Response(kind, batch) ==
    CASE kind = "omit_first" ->
            [parses |-> TRUE,
             value |->
                [analysis |->
                    [id \in Ids(SubSeq(batch, 2, Len(batch))) |->
                        [action |-> "delete", category |-> "promotional",
                         confidence |-> 9, reason |-> "ad"]],
                 summary |->
                    [total_emails |-> Len(batch) - 1,
                     recommended_deletions |-> Len(batch) - 1,
                     needs_review |-> 0, keep |-> 0]]]
      [] kind = "no_action" ->
            [parses |-> TRUE,
             value |->
                [analysis |-> [id \in Ids(batch) |-> [category |-> "work"]],
                 summary |->
                    [total_emails |-> Len(batch), recommended_deletions |-> 0,
                     needs_review |-> Len(batch), keep |-> 0]]]
      [] kind = "missing_fields" ->
            [parses |-> TRUE,
             value |-> [analysis |-> [id \in Ids(batch) |-> EmptyDict]]]
      [] kind = "bad_shape" ->
            [parses |-> TRUE,
             value |-> [analysis |-> JsonList, summary |-> EmptyDict]]
      [] OTHER ->
            [parses |-> FALSE, value |-> EmptyDict]

\* A parser that does not validate the structure.
ParseWithoutValidation(response) ==
    IF ~response.parses THEN PyNone ELSE response.value

\* _parse_analysis_response: None unless the text is JSON with both
\* top-level fields.
ParseAnalysisResponse(response) ==
    IF ~response.parses
    THEN PyNone
    ELSE IF "analysis" \notin DOMAIN response.value
            \/ "summary" \notin DOMAIN response.value
         THEN PyNone
         ELSE response.value

\* The outcomes of one analyze_emails call: the API call raises, or it
\* answers with a response of one of the kinds above.
EngineOutcomes == {"api_error"} \cup ResponseKinds

\* analyze_emails: the fallback analysis of all emails when the API call
\* raises, else the parsed response to the first AnalyzeLimit emails.
AnalyzeEmails(emails, outcome) ==
    IF outcome = "api_error"
    THEN CreateFallbackAnalysis(emails)
    ELSE ParseAnalysisResponse(Response(outcome, EmailSummaries(emails)))

----------------------------------------------------------------------------
(* EmailDatabase: queries *)

RunIds(rs) == 1..Len(rs)

Lowest(S) == CHOOSE x \in S : \A y \in S : x <= y

\* ORDER BY created_at DESC LIMIT 1 over the run ids in S: a run of the
\* greatest created_at.  SQL leaves the order of rows of equal created_at
\* open; SQLite's sorter keeps them in rowid order, so the first of them is
\* the one of the lowest id.
LatestCreated(rs, S) ==
    IF S = {}
    THEN NoRun
    ELSE Lowest({i \in S : \A j \in S : rs[j].created_at <= rs[i].created_at})

PendingRuns(rs) == {i \in RunIds(rs) : rs[i].status = "pending"}

\* A query that looks at the run created last only.
LastRunIfPending(rs) ==
    LET i == LatestCreated(rs, RunIds(rs))
    IN  IF i # NoRun /\ rs[i].status = "pending" THEN i ELSE NoRun

\* get_pending_run: the id of the run it returns, NoRun for None.
GetPendingRun(rs) == LatestCreated(rs, PendingRuns(rs))

\* The email rows get_pending_run returns with the run.
RunEmails(rws, run_id) == SelectSeq(rws, LAMBDA r : r.run_id = run_id)

\* get_last_page_token
GetLastPageToken(rs) ==
    LET withNext == {i \in PendingRuns(rs) : rs[i].next_page_token # NoToken}
        i == LatestCreated(rs, withNext)
    IN  IF i = NoRun THEN NoToken ELSE rs[i].next_page_token

\* A query for the undecided rows of every run.
UnprocessedOfEveryRun(rws, run_id) ==
    SelectSeq(rws, LAMBDA r : r.user_decision = Null)

\* get_unprocessed_emails_for_run
GetUnprocessedEmailsForRun(rws, run_id) ==
    SelectSeq(rws, LAMBDA r : r.run_id = run_id /\ r.user_decision = Null)

\* round((processed_count / total_emails) * 100, 1) if total_emails > 0
\* else 0, in tenths of a percent (no tie to round arises for a total
\* below 16).
ProgressPercentage(processed_count, total_emails) ==
    IF total_emails > 0
    THEN (2000 * processed_count + total_emails) \div (2 * total_emails)
    ELSE 0

\* SELECT COUNT(*) FROM email_analysis WHERE run_id = ? AND user_decision
\* IS NOT NULL
ProcessedCount(rws, run_id) ==
    Len(SelectSeq(rws, LAMBDA r : r.run_id = run_id /\ r.user_decision # Null))

\* get_incomplete_run_info: None when no run is pending.
GetIncompleteRunInfo(rs, rws) ==
    LET run_id == LatestCreated(rs, PendingRuns(rs))
        total_emails == Len(RunEmails(rws, run_id))
        processed_count == ProcessedCount(rws, run_id)
        unprocessed == GetUnprocessedEmailsForRun(rws, run_id)
    IN  IF run_id = NoRun
        THEN PyNone
        ELSE [run_id |-> run_id,
              unprocessed_emails |-> unprocessed,
              current_page_token |-> rs[run_id].current_page_token,
              next_page_token |-> rs[run_id].next_page_token,
              total_emails_in_run |-> total_emails,
              processed_count |-> processed_count,
              remaining_count |-> Len(unprocessed),
              progress_percentage |->
                  ProgressPercentage(processed_count, total_emails),
              needs_reanalysis |-> Len(unprocessed) > 0]

\* get_run_progress: None when there is no run of this id.
GetRunProgress(rs, rws, run_id) ==
    LET total_emails == Len(RunEmails(rws, run_id))
        processed_count == ProcessedCount(rws, run_id)
    IN  IF run_id \notin RunIds(rs)
        THEN PyNone
        ELSE [run_id |-> run_id,
              status |-> rs[run_id].status,
              total_emails |-> total_emails,
              processed_count |-> processed_count,
              remaining_count |-> total_emails - processed_count,
              delete_decisions |->
                  Len(SelectSeq(rws, LAMBDA r : r.run_id = run_id
                                        /\ r.user_decision = "delete")),
              keep_decisions |->
                  Len(SelectSeq(rws, LAMBDA r : r.run_id = run_id
                                        /\ r.user_decision = "keep")),
              progress_percentage |->
                  ProgressPercentage(processed_count, total_emails),
              is_complete |-> processed_count = total_emails]

----------------------------------------------------------------------------
(* EmailDatabase: writes *)

\* A store whose default recommendation is delete.
DeleteByDefault == "delete"

\* The defaults of a row whose analysis entry, or a key of it, is missing.
DefaultAction == "review"

DefaultCategory == "other"

\* 0.5, in tenths.
DefaultConfidence == 5

\* One email_analysis row: the email and the fields of its analysis entry.
AnalysisRow(run_id, email, entry, defaultReason) ==
    [run_id |-> run_id,
     email_id |-> email.id,
     subject |-> email.subject,
     sender |-> email.sender,
     recommended_action |-> DictGet(entry, "action", DefaultAction),
     category |-> DictGet(entry, "category", DefaultCategory),
     confidence |-> DictGet(entry, "confidence", DefaultConfidence),
     reason |-> DictGet(entry, "reason", defaultReason),
     user_decision |-> Null]

\* The rows save_page_analysis builds for the emails of a page.
PageRows(run_id, emails, analysis) ==
    [i \in 1..Len(emails) |->
        AnalysisRow(run_id, emails[i],
                    DictGet(analysis.analysis, emails[i].id, EmptyDict),
                    "No analysis available")]

\* The analysis_runs row both inserts write; status is 'pending'.
RunHeader(summary, current_token, next_token, stamp) ==
    [total_emails |-> DictGet(summary, "total_emails", 0),
     recommended_deletions |-> DictGet(summary, "recommended_deletions", 0),
     needs_review |-> DictGet(summary, "needs_review", 0),
     keep_emails |-> DictGet(summary, "keep", 0),
     status |-> "pending",
     current_page_token |-> current_token,
     next_page_token |-> next_token,
     created_at |-> stamp]

\* save_page_analysis raises after the header insert, and the transaction
\* is rolled back, when analysis['analysis'] is missing or has no .get.
SavePageAnalysisRaises(emails, analysis) ==
    /\ Len(emails) > 0
    /\ \/ "analysis" \notin DOMAIN analysis
       \/ analysis.analysis = JsonList

\* save_page_analysis, when it commits: the tables after it.
SavePageAnalysisRuns(rs, analysis, current_token, next_token, stamp) ==
    Append(rs, RunHeader(DictGet(analysis, "summary", EmptyDict),
                         current_token, next_token, stamp))

\* A save without a transaction that stops after the row of the first
\* email: the header and that row stay.
SavePageRowsFirstOnly(rs, rws, emails, analysis) ==
    rws \o SubSeq(PageRows(Len(rs) + 1, emails, analysis), 1, 1)

SavePageAnalysisRows(rs, rws, emails, analysis) ==
    rws \o PageRows(Len(rs) + 1, emails, analysis)

\* merge_reanalysis_with_new_page raises, and nothing is committed, under
\* the same condition on new_analysis and the emails of the new page.
MergeRaises(new_emails, new_analysis) ==
    SavePageAnalysisRaises(new_emails, new_analysis)

\* sum(1 for e in reanalyzed_emails if e.get('action') == action)
RECURSIVE CountAction(_, _)
CountAction(reanalyzed_emails, action) ==
    IF reanalyzed_emails = <<>>
    THEN 0
    ELSE (IF DictGet(Head(reanalyzed_emails), "action", Null) = action
          THEN 1 ELSE 0)
         + CountAction(Tail(reanalyzed_emails), action)

\* A merge that takes the counts of the new page's summary alone.
NewPageSummaryOnly(reanalyzed_emails, new_analysis, new_emails) ==
    LET new_summary == DictGet(new_analysis, "summary", EmptyDict)
    IN  [total_emails |-> Len(reanalyzed_emails) + Len(new_emails),
         recommended_deletions |->
             DictGet(new_summary, "recommended_deletions", 0),
         needs_review |-> DictGet(new_summary, "needs_review", 0),
         keep |-> DictGet(new_summary, "keep", 0)]

CombinedSummary(reanalyzed_emails, new_analysis, new_emails) ==
    LET new_summary == DictGet(new_analysis, "summary", EmptyDict)
    IN  [total_emails |-> Len(reanalyzed_emails) + Len(new_emails),
         recommended_deletions |->
             CountAction(reanalyzed_emails, "delete")
             + DictGet(new_summary, "recommended_deletions", 0),
         needs_review |->
             CountAction(reanalyzed_emails, "review")
             + DictGet(new_summary, "needs_review", 0),
         keep |->
             CountAction(reanalyzed_emails, "keep")
             + DictGet(new_summary, "keep", 0)]

\* The rows merge_reanalysis_with_new_page builds for the re-analysed
\* emails: each carries its own analysis fields.
ReanalyzedRows(run_id, reanalyzed_emails) ==
    [i \in 1..Len(reanalyzed_emails) |->
        AnalysisRow(run_id, reanalyzed_emails[i], reanalyzed_emails[i],
                    "Re-analyzed after crash recovery")]

\* merge_reanalysis_with_new_page, when it commits: the tables after it.
MergeRuns(rs, summary, current_token, next_token, stamp) ==
    Append(rs, RunHeader(summary, current_token, next_token, stamp))

\* A merge that moves the undecided rows of the re-analysed emails into the
\* new run instead of inserting rows for them.
MergeRowsMovingOld(rs, rws, reanalyzed_emails, new_analysis, new_emails) ==
    [i \in 1..Len(rws) |->
        IF rws[i].user_decision = Null /\ rws[i].email_id \in Ids(reanalyzed_emails)
        THEN [rws[i] EXCEPT !.run_id = Len(rs) + 1]
        ELSE rws[i]]
        \o PageRows(Len(rs) + 1, new_emails, new_analysis)

MergeRows(rs, rws, reanalyzed_emails, new_analysis, new_emails) ==
    rws \o ReanalyzedRows(Len(rs) + 1, reanalyzed_emails)
        \o PageRows(Len(rs) + 1, new_emails, new_analysis)

\* An update that writes the delete decisions only.
UpdateDeleteDecisionsOnly(rws, run_id, decisions) ==
    [i \in 1..Len(rws) |->
        IF /\ rws[i].run_id = run_id
           /\ DictGet(decisions, rws[i].email_id, Null) = "delete"
        THEN [rws[i] EXCEPT !.user_decision = "delete"]
        ELSE rws[i]]

\* An update that matches the rows by email id alone, in whatever run.
UpdateDecisionsInEveryRun(rws, run_id, decisions) ==
    [i \in 1..Len(rws) |->
        IF rws[i].email_id \in DOMAIN decisions
        THEN [rws[i] EXCEPT !.user_decision = decisions[rws[i].email_id]]
        ELSE rws[i]]

\* update_user_decisions
UpdateUserDecisions(rws, run_id, decisions) ==
    [i \in 1..Len(rws) |->
        IF rws[i].run_id = run_id /\ rws[i].email_id \in DOMAIN decisions
        THEN [rws[i] EXCEPT !.user_decision = decisions[rws[i].email_id]]
        ELSE rws[i]]

\* mark_run_completed
MarkRunCompleted(rs, run_id) ==
    [i \in 1..Len(rs) |->
        IF i = run_id THEN [rs[i] EXCEPT !.status = "completed"] ELSE rs[i]]

\* mark_old_run_superseded
MarkOldRunSuperseded(rs, old_run_id) ==
    [i \in 1..Len(rs) |->
        IF i = old_run_id THEN [rs[i] EXCEPT !.status = "superseded"] ELSE rs[i]]

\* log_deleted_emails: one entry per (email_id, subject, sender) given.
LogDeletedEmails(del, deleted_emails) == del \o deleted_emails

----------------------------------------------------------------------------
(* The clock: created_at defaults to CURRENT_TIMESTAMP *)

Clock(rs) == IF rs = <<>> THEN 0 ELSE rs[Len(rs)].created_at

\* The created_at of a run inserted now: calls are made at least a second
\* apart, so it is later than that of the run inserted before it.
Stamp(rs) == Clock(rs) + 1

----------------------------------------------------------------------------
(* GmailClient.delete_emails *)

\* The ids are trashed one by one; the first failing request ends the loop.
\* trashCount requests succeed: the call reports success when all did.
Trashed(message_ids, trashCount) ==
    {message_ids[i] : i \in 1..Min(trashCount, Len(message_ids))}

DeleteEmails(message_ids, trashCount) == trashCount >= Len(message_ids)

----------------------------------------------------------------------------
(* The record of a call *)

NoCall ==
    [op |-> "init",
     page_token |-> NoToken,       \* the token passed to get_email_page
     fetched |-> <<>>,             \* the emails of the page fetched
     fetch_failed |-> FALSE,       \* the mailbox request raised
     engine_called |-> FALSE,      \* analyze_emails was called
     submitted |-> <<>>,           \* the emails passed to analyze_emails,
                                   \* or to the store method called
     analysis |-> EmptyDict,       \* the analysis passed to the store method
     reanalyzed |-> <<>>,          \* the re-analysed emails passed to it
     batch |-> <<>>,               \* the emails sent to the hosted model
     engine |-> "none",            \* the outcome of analyze_emails
     new_run |-> NoRun,            \* the run inserted and committed
     has_more_pages |-> FALSE,
     next_page_token |-> NoToken,
     run_id |-> NoRun,             \* execute_user_decisions' run_id
     pending |-> NoRun,            \* what get_pending_run returned
     decisions |-> EmptyDict,      \* the decision map, once it is read
     delete_called |-> FALSE,      \* delete_emails was called
     delete_ids |-> <<>>,          \* with these ids
     delete_ok |-> FALSE,          \* and returned this
     fault |-> "none",             \* the store write that raised
     info |-> PyNone,              \* what a progress query returned
     handler |-> "none",           \* the web handler that made the call
     selected |-> {},              \* the ids selected in its form
     result |-> "none"]            \* the return value

----------------------------------------------------------------------------
(* EmailProcessor.run_paginated_analysis *)

\* generate_daily_summary raises KeyError on a non-empty analysis entry
\* without 'action'.
GenerateDailySummaryRaises(emails, analysis) ==
    \E i \in 1..Len(emails) :
        LET entry == DictGet(analysis.analysis, emails[i].id, EmptyDict)
        IN  DOMAIN entry # {} /\ "action" \notin DOMAIN entry

\* A handler without the two early returns.
NeverNothingToAnalyze(emails) == FALSE

\* `if not page_result['emails']` and `if not filtered_emails`.
NothingToAnalyze(emails) == emails = <<>>

\* The outcomes analyze_emails can have on the page of this token: it is
\* called only when the fetch returned an email that passes the filters.
OutcomesFor(page_token, fetchOk) ==
    LET page == GetEmailPage(page_token, fetchOk)
    IN  IF ApplyPreprocessingFilters(page.emails) = <<>>
        THEN {"none"}
        ELSE EngineOutcomes

\* run_paginated_analysis once get_email_page has returned `page`.
PaginatedAnalysisOf(op, page_token, page, fetchOk, outcome) ==
    LET filtered == ApplyPreprocessingFilters(page.emails)
        analysis == AnalyzeEmails(filtered, outcome)
        called == [NoCall EXCEPT !.op = op, !.page_token = page_token,
                                 !.fetched = page.emails,
                                 !.fetch_failed = ~fetchOk]
        analyzed == [called EXCEPT !.engine_called = TRUE,
                                   !.submitted = filtered,
                                   !.batch = EmailSummaries(filtered),
                                   !.engine = outcome]
    IN  /\ before' = world
        /\ UNCHANGED << deleted, trashed >>
        /\ IF NothingToAnalyze(page.emails)
           THEN /\ UNCHANGED << runs, rows >>
                /\ last' = called
           ELSE IF NothingToAnalyze(filtered)
           THEN /\ UNCHANGED << runs, rows >>
                /\ last' = called
           ELSE IF Falsy(analysis)
           THEN /\ UNCHANGED << runs, rows >>
                /\ last' = analyzed
           ELSE IF SavePageAnalysisRaises(filtered, analysis)
           THEN /\ UNCHANGED << runs, rows >>
                /\ last' = analyzed
           ELSE /\ Len(runs) < MaxRuns
                /\ runs' = SavePageAnalysisRuns(runs, analysis, page_token,
                                page.next_page_token, Stamp(runs))
                /\ rows' = SavePageAnalysisRows(runs, rows, filtered, analysis)
                /\ last' = [analyzed EXCEPT
                              !.new_run = Len(runs) + 1,
                              !.has_more_pages = page.has_more,
                              !.next_page_token = page.next_page_token,
                              !.result =
                                 IF GenerateDailySummaryRaises(filtered, analysis)
                                 THEN "none" ELSE "page"]

PaginatedAnalysis(op, page_token, fetchOk, outcome) ==
    PaginatedAnalysisOf(op, page_token, GetEmailPage(page_token, fetchOk),
                        fetchOk, outcome)

\* python main.py --page: run_paginated_analysis()
RunPaginatedAnalysis ==
    \E fetchOk \in BOOLEAN :
        \E outcome \in OutcomesFor(NoToken, fetchOk) :
            PaginatedAnalysis("run_paginated_analysis", NoToken, fetchOk,
                              outcome)

\* continue_from_last_page
ContinueFromLastPage ==
    \E fetchOk \in BOOLEAN :
        \E outcome \in OutcomesFor(GetLastPageToken(runs), fetchOk) :
            PaginatedAnalysis("continue_from_last_page",
                              GetLastPageToken(runs), fetchOk, outcome)

----------------------------------------------------------------------------
(* EmailProcessor.execute_user_decisions *)

\* A guard that only checks that some run is pending.
NoPendingRunOnly(pending, run_id) == pending = NoRun

\* `if not pending_run or pending_run['run'][0] != run_id`
RunIdMismatch(pending, run_id) == pending = NoRun \/ pending # run_id

\* The rows of the pending run whose decision is 'delete', in row order.
ToDelete(emails, decisions) ==
    SelectSeq(emails,
              LAMBDA r : DictGet(decisions, r.email_id, Null) = "delete")

\* A selection by the map alone: the ids of the run mapped to delete, and
\* also the id of no run when the map says delete for it.
EveryIdMappedToDelete(emails, decisions) ==
    LET sel == ToDelete(emails, decisions)
    IN  [i \in 1..Len(sel) |-> sel[i].email_id]
           \o (IF DictGet(decisions, ForeignId, Null) = "delete"
               THEN <<ForeignId>> ELSE <<>>)

EmailsToDelete(emails, decisions) ==
    LET sel == ToDelete(emails, decisions)
    IN  [i \in 1..Len(sel) |-> sel[i].email_id]

DeletedEmailInfo(emails, decisions) ==
    LET sel == ToDelete(emails, decisions)
    IN  [i \in 1..Len(sel) |->
            [email_id |-> sel[i].email_id, subject |-> sel[i].subject,
             sender |-> sel[i].sender]]

\* `if emails_to_delete:`
DeleteNeeded(emails_to_delete) == emails_to_delete # <<>>

\* A handler that goes on whatever delete_emails returned.
DeleteAssumedConfirmed(success) == TRUE

\* `if success:` after delete_emails; the else branch returns False.
DeleteConfirmed(success) == success

\* execute_user_decisions, called by this handler of the web surface (or by
\* none) with these ids selected in its form.  The three store writes that
\* follow a confirmed delete succeed.
ExecuteDecisionsBy(handler, selected, run_id, decisions, trashCount) ==
    LET pending == GetPendingRun(runs)
        emails == RunEmails(rows, pending)
        ids == EmailsToDelete(emails, decisions)
        success == DeleteEmails(ids, trashCount)
        called == [NoCall EXCEPT !.op = "execute_user_decisions",
                                 !.handler = handler, !.selected = selected,
                                 !.run_id = run_id, !.pending = pending,
                                 !.result = "false"]
        read == [called EXCEPT !.decisions = decisions]
        tried == IF DeleteNeeded(ids)
                 THEN [read EXCEPT !.delete_called = TRUE, !.delete_ids = ids,
                                   !.delete_ok = success]
                 ELSE read
        logged == IF DeleteNeeded(ids)
                  THEN LogDeletedEmails(deleted, DeletedEmailInfo(emails, decisions))
                  ELSE deleted
    IN  /\ before' = world
        /\ IF RunIdMismatch(pending, run_id)
           THEN /\ UNCHANGED << runs, rows, deleted, trashed >>
                /\ last' = called
           ELSE /\ trashed' = IF DeleteNeeded(ids)
                              THEN trashed \cup Trashed(ids, trashCount)
                              ELSE trashed
                /\ IF DeleteNeeded(ids) /\ ~DeleteConfirmed(success)
                   THEN /\ UNCHANGED << runs, rows, deleted >>
                        /\ last' = tried
                   ELSE /\ deleted' = logged
                        /\ rows' = UpdateUserDecisions(rows, run_id, decisions)
                        /\ runs' = MarkRunCompleted(runs, run_id)
                        /\ last' = [tried EXCEPT !.result = "true"]

\* execute_user_decisions called directly.
ExecuteDecisions(run_id, decisions, trashCount) ==
    ExecuteDecisionsBy("none", {}, run_id, decisions, trashCount)

\* The decision maps a caller submits for a run with these email rows:
\* all to delete (for a run of one email, the command line's delete-one),
\* all to keep, the first to delete and the rest to keep (the web form), and
\* a map that leaves out all but the first, gives it a value that is neither
\* delete nor keep, and names a message of no run with delete.
DecisionMaps(emails) ==
    LET ids == {emails[i].email_id : i \in 1..Len(emails)}
    IN  IF emails = <<>>
        THEN {EmptyDict, [id \in {ForeignId} |-> "delete"]}
        ELSE LET first == emails[1].email_id
             IN  {[id \in ids |-> "delete"],
                  [id \in ids |-> "keep"],
                  [id \in ids |-> IF id = first THEN "delete" ELSE "keep"],
                  [id \in {first, ForeignId} |->
                      IF id = first THEN "archive" ELSE "delete"]}

\* execute_user_decisions, called with any run id and any of the maps for
\* the run of that id; every store write succeeds.
ExecuteUserDecisions ==
    \E run_id \in 1..(Len(runs) + 1) :
      \E decisions \in DecisionMaps(RunEmails(rows, run_id)) :
        \E trashCount \in 0..Len(EmailsToDelete(RunEmails(rows, run_id), decisions)) :
            ExecuteDecisions(run_id, decisions, trashCount)

----------------------------------------------------------------------------
(* The controller *)

Init ==
    /\ runs = <<>>
    /\ rows = <<>>
    /\ deleted = <<>>
    /\ trashed = {}
    /\ last = NoCall
    /\ before = [runs |-> <<>>, rows |-> <<>>, deleted |-> <<>>, trashed |-> {}]

Next ==
    \/ RunPaginatedAnalysis
    \/ ContinueFromLastPage
    \/ ExecuteUserDecisions

Spec == Init /\ [][Next]_vars

----------------------------------------------------------------------------
(* The web surface: execute_deletions *)

\* A decision map of the selected emails only.
SelectedOnly(emails, selected_emails) ==
    [id \in {emails[i].email_id : i \in 1..Len(emails)} \cap selected_emails
        |-> "delete"]

\* The decisions dict the handler builds from the rows of the pending run:
\* delete for the selected ids, keep for the rest.
WebDecisions(emails, selected_emails) ==
    [id \in {emails[i].email_id : i \in 1..Len(emails)} |->
        IF id \in selected_emails THEN "delete" ELSE "keep"]

\* The selections a form can post for the run of this id: any of its
\* emails, or a message of no run.
Selections(run_id) ==
    LET emails == RunEmails(rows, run_id)
    IN  SUBSET {emails[i].email_id : i \in 1..Len(emails)} \cup {{ForeignId}}

\* POST /delete/<run_id>: redirects when nothing is selected or when the
\* run is not the one get_pending_review returns; otherwise calls
\* execute_user_decisions with the map it built.
ExecuteDeletions(run_id, selected_emails, trashCount) ==
    LET pending == GetPendingRun(runs)
        stopped == [NoCall EXCEPT !.op = "execute_deletions",
                                  !.handler = "execute_deletions",
                                  !.selected = selected_emails,
                                  !.run_id = run_id,
                                  !.result = "redirect"]
    IN  IF selected_emails = {}
        THEN /\ before' = world
             /\ UNCHANGED << runs, rows, deleted, trashed >>
             /\ last' = stopped
        ELSE IF RunIdMismatch(pending, run_id)
        THEN /\ before' = world
             /\ UNCHANGED << runs, rows, deleted, trashed >>
             /\ last' = [stopped EXCEPT !.pending = pending]
        ELSE ExecuteDecisionsBy("execute_deletions", selected_emails, run_id,
                                WebDecisions(RunEmails(rows, pending),
                                             selected_emails),
                                trashCount)

WebExecuteDeletions ==
    \E run_id \in 1..(Len(runs) + 1) :
      \E selected_emails \in Selections(run_id) :
        \E trashCount \in 0..Cardinality(selected_emails) :
            ExecuteDeletions(run_id, selected_emails, trashCount)

\* POST /analyze: continue_from_last_page when get_pagination_status says
\* a token is saved, run_paginated_analysis() otherwise.
StartAnalysis ==
    LET last_token == GetLastPageToken(runs)
    IN  \E fetchOk \in BOOLEAN :
          \E outcome \in OutcomesFor(last_token, fetchOk) :
            IF last_token # NoToken
            THEN PaginatedAnalysis("continue_from_last_page", last_token,
                                   fetchOk, outcome)
            ELSE PaginatedAnalysis("run_paginated_analysis", NoToken,
                                   fetchOk, outcome)

NextWeb ==
    \/ StartAnalysis
    \/ WebExecuteDeletions

SpecWeb == Init /\ [][NextWeb]_vars

----------------------------------------------------------------------------
(* The store, its methods called directly *)

\* The emails handed to the store for the page of a token: the page as
\* the filters leave it.
StoreEmails(token) == ApplyPreprocessingFilters(InboxPage(token).emails)

\* The analyses handed to the store with these emails: the fallback
\* analysis, an analysis that omits the first email and marks the others
\* delete, and one whose 'analysis' is a list.
StoreAnalyses(emails) ==
    {CreateFallbackAnalysis(emails),
     Response("omit_first", emails).value,
     Response("bad_shape", emails).value}

\* get_emails_for_reanalysis: the undecided rows of a run as email dicts.
GetEmailsForReanalysis(rws, run_id) ==
    LET u == GetUnprocessedEmailsForRun(rws, run_id)
    IN  [i \in 1..Len(u) |->
            Msg(u[i].email_id, u[i].subject, u[i].sender)]

\* The re-analysed emails handed to the merge: the undecided emails of the
\* latest pending run, each with the fields of a new delete recommendation,
\* or each without any analysis field.
Reanalyzed(emails, withAction) ==
    [i \in 1..Len(emails) |->
        IF withAction
        THEN [id |-> emails[i].id, subject |-> emails[i].subject,
              sender |-> emails[i].sender, action |-> "delete",
              category |-> "promotional", confidence |-> 9,
              reason |-> "ad"]
        ELSE emails[i]]

DbSavePageAnalysis ==
    \E token \in {NoToken, "T1"} :
      \E analysis \in StoreAnalyses(StoreEmails(token)) :
        LET emails == StoreEmails(token)
            called == [NoCall EXCEPT !.op = "save_page_analysis",
                                     !.page_token = token,
                                     !.submitted = emails,
                                     !.analysis = analysis]
        IN  /\ before' = world
            /\ UNCHANGED << deleted, trashed >>
            /\ IF SavePageAnalysisRaises(emails, analysis)
               THEN /\ UNCHANGED << runs, rows >>
                    /\ last' = called
               ELSE /\ Len(runs) < MaxRuns
                    /\ runs' = SavePageAnalysisRuns(runs, analysis, token,
                                    InboxPage(token).next_page_token,
                                    Stamp(runs))
                    /\ rows' = SavePageAnalysisRows(runs, rows, emails, analysis)
                    /\ last' = [called EXCEPT !.new_run = Len(runs) + 1]

DbMergeReanalysisWithNewPage ==
    \E withAction \in BOOLEAN :
      LET old == GetPendingRun(runs)
          token == GetLastPageToken(runs)
          new_emails == StoreEmails(token)
          reanalyzed_emails ==
              Reanalyzed(GetEmailsForReanalysis(rows, old), withAction)
      IN  \E new_analysis \in StoreAnalyses(new_emails) :
            LET called == [NoCall EXCEPT
                              !.op = "merge_reanalysis_with_new_page",
                              !.page_token = token,
                              !.submitted = new_emails,
                              !.analysis = new_analysis,
                              !.reanalyzed = reanalyzed_emails]
            IN  /\ before' = world
                /\ UNCHANGED << deleted, trashed >>
                /\ IF MergeRaises(new_emails, new_analysis)
                   THEN /\ UNCHANGED << runs, rows >>
                        /\ last' = called
                   ELSE /\ Len(runs) < MaxRuns
                        /\ runs' = MergeRuns(runs,
                                        CombinedSummary(reanalyzed_emails,
                                            new_analysis, new_emails),
                                        token,
                                        InboxPage(token).next_page_token,
                                        Stamp(runs))
                        /\ rows' = MergeRows(runs, rows, reanalyzed_emails,
                                             new_analysis, new_emails)
                        /\ last' = [called EXCEPT !.new_run = Len(runs) + 1]

DbMarkOldRunSuperseded ==
    \E old_run_id \in RunIds(runs) :
        /\ before' = world
        /\ runs' = MarkOldRunSuperseded(runs, old_run_id)
        /\ UNCHANGED << rows, deleted, trashed >>
        /\ last' = [NoCall EXCEPT !.op = "mark_old_run_superseded",
                                  !.run_id = old_run_id]

\* update_user_decisions with a map that keeps the first email of the run.
DbUpdateUserDecisions ==
    \E run_id \in {r \in RunIds(runs) : RunEmails(rows, r) # <<>>} :
      LET decisions ==
              [id \in {RunEmails(rows, run_id)[1].email_id} |-> "keep"]
      IN
        /\ before' = world
        /\ rows' = UpdateUserDecisions(rows, run_id, decisions)
        /\ UNCHANGED << runs, deleted, trashed >>
        /\ last' = [NoCall EXCEPT !.op = "update_user_decisions",
                                  !.run_id = run_id,
                                  !.decisions = decisions]

NextDb ==
    \/ DbSavePageAnalysis
    \/ DbMergeReanalysisWithNewPage
    \/ DbMarkOldRunSuperseded
    \/ DbUpdateUserDecisions

SpecDb == Init /\ [][NextDb]_vars

----------------------------------------------------------------------------
(* The store, with runs inserted within one second *)

\* created_at is CURRENT_TIMESTAMP, of a resolution of one second: a run
\* inserted in the second of the run before it gets the same created_at.
StampWithin(rs, sameSecond) ==
    IF sameSecond /\ rs # <<>> THEN Clock(rs) ELSE Stamp(rs)

\* save_page_analysis for any page of the mailbox, with the fallback
\* analysis of its emails.
TickSavePageAnalysis ==
    \E token \in {NoToken, "T1", "T2"}, sameSecond \in BOOLEAN :
        LET emails == InboxPage(token).emails
            analysis == CreateFallbackAnalysis(emails)
        IN  /\ Len(runs) < MaxRuns
            /\ before' = world
            /\ UNCHANGED << deleted, trashed >>
            /\ runs' = SavePageAnalysisRuns(runs, analysis, token,
                            InboxPage(token).next_page_token,
                            StampWithin(runs, sameSecond))
            /\ rows' = SavePageAnalysisRows(runs, rows, emails, analysis)
            /\ last' = [NoCall EXCEPT !.op = "save_page_analysis",
                                      !.page_token = token,
                                      !.submitted = emails,
                                      !.analysis = analysis,
                                      !.new_run = Len(runs) + 1]

TickMarkRunCompleted ==
    \E run_id \in RunIds(runs) :
        /\ before' = world
        /\ runs' = MarkRunCompleted(runs, run_id)
        /\ UNCHANGED << rows, deleted, trashed >>
        /\ last' = [NoCall EXCEPT !.op = "mark_run_completed",
                                  !.run_id = run_id]

NextTick ==
    \/ TickSavePageAnalysis
    \/ TickMarkRunCompleted
    \/ DbMarkOldRunSuperseded

SpecTick == Init /\ [][NextTick]_vars

----------------------------------------------------------------------------
(* The store, with its progress queries *)

\* save_page_analysis with the fallback analysis of the emails that pass
\* the filters on any page of the mailbox; on the last page there is none.
ProgressSavePageAnalysis ==
    \E token \in {NoToken, "T1", "T2"} :
        LET emails == StoreEmails(token)
            analysis == CreateFallbackAnalysis(emails)
        IN  /\ Len(runs) < MaxRuns
            /\ before' = world
            /\ UNCHANGED << deleted, trashed >>
            /\ runs' = SavePageAnalysisRuns(runs, analysis, token,
                            InboxPage(token).next_page_token, Stamp(runs))
            /\ rows' = SavePageAnalysisRows(runs, rows, emails, analysis)
            /\ last' = [NoCall EXCEPT !.op = "save_page_analysis",
                                      !.page_token = token,
                                      !.submitted = emails,
                                      !.analysis = analysis,
                                      !.new_run = Len(runs) + 1]

DbGetIncompleteRunInfo ==
    /\ before' = world
    /\ UNCHANGED << runs, rows, deleted, trashed >>
    /\ last' = [NoCall EXCEPT !.op = "get_incomplete_run_info",
                              !.info = GetIncompleteRunInfo(runs, rows)]

DbGetRunProgress ==
    \E run_id \in 1..(Len(runs) + 1) :
        /\ before' = world
        /\ UNCHANGED << runs, rows, deleted, trashed >>
        /\ last' = [NoCall EXCEPT !.op = "get_run_progress",
                                  !.run_id = run_id,
                                  !.info = GetRunProgress(runs, rows, run_id)]

NextProgress ==
    \/ ProgressSavePageAnalysis
    \/ DbUpdateUserDecisions
    \/ TickMarkRunCompleted
    \/ DbGetIncompleteRunInfo
    \/ DbGetRunProgress

SpecProgress == Init /\ [][NextProgress]_vars

----------------------------------------------------------------------------
(* The controller with store writes that raise *)

\* No call is interrupted once the deletion log holds this many entries.
MaxDeleted == 1

\* The store writes of execute_user_decisions, each its own transaction.
StoreWrites == {"log", "update", "complete"}

\* A handler that marks the run completed right after the mailbox delete,
\* before the store write that raises.
ExecuteDecisionsCompletedFirst(run_id, decisions, fault) ==
    LET pending == GetPendingRun(runs)
        ids == EmailsToDelete(RunEmails(rows, pending), decisions)
    IN  /\ ~RunIdMismatch(pending, run_id)
        /\ before' = world
        /\ trashed' = trashed \cup Trashed(ids, Len(ids))
        /\ last' = [NoCall EXCEPT !.op = "execute_user_decisions",
                                  !.run_id = run_id, !.pending = pending,
                                  !.decisions = decisions,
                                  !.result = "false", !.fault = fault]
        /\ runs' = MarkRunCompleted(runs, run_id)
        /\ UNCHANGED << rows, deleted >>

\* execute_user_decisions when the guard passed, the mailbox delete (if
\* any) reported success, and the store write named by fault raises (the
\* database is locked, the disk is full) or the process stops before it:
\* the writes before it are committed, the raising one is rolled back, and
\* the handler's except returns False.
ExecuteDecisionsInterrupted(run_id, decisions, fault) ==
    LET pending == GetPendingRun(runs)
        emails == RunEmails(rows, pending)
        ids == EmailsToDelete(emails, decisions)
        called == [NoCall EXCEPT !.op = "execute_user_decisions",
                                 !.run_id = run_id, !.pending = pending,
                                 !.decisions = decisions,
                                 !.result = "false", !.fault = fault]
        tried == IF DeleteNeeded(ids)
                 THEN [called EXCEPT !.delete_called = TRUE,
                                     !.delete_ids = ids, !.delete_ok = TRUE]
                 ELSE called
        logged == IF DeleteNeeded(ids)
                  THEN LogDeletedEmails(deleted, DeletedEmailInfo(emails, decisions))
                  ELSE deleted
    IN  /\ ~RunIdMismatch(pending, run_id)
        /\ Len(deleted) < MaxDeleted
        /\ fault = "log" => DeleteNeeded(ids)
        /\ before' = world
        /\ trashed' = IF DeleteNeeded(ids)
                      THEN trashed \cup Trashed(ids, Len(ids))
                      ELSE trashed
        /\ last' = tried
        /\ UNCHANGED runs
        /\ deleted' = IF fault = "log" THEN deleted ELSE logged
        /\ rows' = IF fault = "complete"
                   THEN UpdateUserDecisions(rows, run_id, decisions)
                   ELSE rows

ExecuteUserDecisionsInterrupted ==
    \E run_id \in RunIds(runs) :
      \E decisions \in DecisionMaps(RunEmails(rows, run_id)) :
        \E fault \in StoreWrites :
            ExecuteDecisionsInterrupted(run_id, decisions, fault)

NextFault ==
    \/ RunPaginatedAnalysis
    \/ ContinueFromLastPage
    \/ ExecuteUserDecisions
    \/ ExecuteUserDecisionsInterrupted

SpecFault == Init /\ [][NextFault]_vars

----------------------------------------------------------------------------
(* The controller on the second mailbox, whose first page is full *)

\* The outcomes analyze_emails can have on a fetched page.
OutcomesOn(page) ==
    IF ApplyPreprocessingFilters(page.emails) = <<>>
    THEN {"none"}
    ELSE EngineOutcomes

\* run_paginated_analysis(page_token) on the second mailbox.
FullPaginatedAnalysis(op, page_token, fetchOk, outcome) ==
    PaginatedAnalysisOf(op, page_token, FullGetEmailPage(page_token, fetchOk),
                        fetchOk, outcome)

FullRunPaginatedAnalysis ==
    \E fetchOk \in BOOLEAN :
        \E outcome \in OutcomesOn(FullGetEmailPage(NoToken, fetchOk)) :
            FullPaginatedAnalysis("run_paginated_analysis", NoToken, fetchOk,
                                  outcome)

FullContinueFromLastPage ==
    \E fetchOk \in BOOLEAN :
        \E outcome \in
                OutcomesOn(FullGetEmailPage(GetLastPageToken(runs), fetchOk)) :
            FullPaginatedAnalysis("continue_from_last_page",
                                  GetLastPageToken(runs), fetchOk, outcome)

NextFullPage ==
    \/ FullRunPaginatedAnalysis
    \/ FullContinueFromLastPage
    \/ TickMarkRunCompleted

SpecFullPage == Init /\ [][NextFullPage]_vars

----------------------------------------------------------------------------
(* The review of fallback runs, stopped between its steps *)

\* continue_from_last_page with a mailbox that answers and an engine whose
\* call raises: the page, if an email of it passes the filters, is saved
\* with the fallback analysis.
ContinueWithFallback ==
    \E outcome \in OutcomesFor(GetLastPageToken(runs), TRUE)
                      \cap {"none", "api_error"} :
        PaginatedAnalysis("continue_from_last_page", GetLastPageToken(runs),
                          TRUE, outcome)

NextStop ==
    \/ ContinueWithFallback
    \/ ExecuteUserDecisions
    \/ ExecuteUserDecisionsInterrupted

SpecStop == Init /\ [][NextStop]_vars

----------------------------------------------------------------------------
(* The review of the pending run, repeated until no run is pending *)

\* execute_user_decisions for the run get_pending_run returns, with any of
\* the decision maps for it and a mailbox that moves every message to the
\* trash.
ReviewPendingRun ==
    LET pending == GetPendingRun(runs)
    IN  /\ pending # NoRun
        /\ \E decisions \in DecisionMaps(RunEmails(rows, pending)) :
              ExecuteDecisions(pending, decisions,
                  Len(EmailsToDelete(RunEmails(rows, pending), decisions)))

NextReview ==
    \/ StartAnalysis
    \/ ReviewPendingRun

\* Pages are processed until the store holds MaxRuns runs; the user keeps
\* reviewing: a review that stays possible is eventually made.
SpecReview == Init /\ [][NextReview]_vars /\ WF_vars(ReviewPendingRun)

----------------------------------------------------------------------------
(* Vocabulary of the properties *)

IsExecute == last.op = "execute_user_decisions"

IsAnalysis == last.op \in {"run_paginated_analysis", "continue_from_last_page"}

\* The run get_pending_run returned to the call: the pending run as the
\* call began.
PendingBefore == GetPendingRun(before.runs)

\* The runs the call moved from pending to completed.
Completed ==
    {r \in RunIds(before.runs) :
        before.runs[r].status = "pending" /\ runs[r].status = "completed"}

\* The deletion-log entries the call added.
Gained == SubSeq(deleted, Len(before.deleted) + 1, Len(deleted))

TablesUnchanged ==
    runs = before.runs /\ rows = before.rows /\ deleted = before.deleted

DeleteFailed == last.delete_called /\ ~last.delete_ok

DeleteSucceeded == last.delete_called /\ last.delete_ok

----------------------------------------------------------------------------
(* C1 *)

\* C1 as stated: an execute_user_decisions call adds deletion-log entries
\* or completes a run only if its mailbox delete call reported success.
C1_GhostDeletionsAsStated ==
    IsExecute /\ (deleted # before.deleted \/ Completed # {})
        => DeleteSucceeded

\* C1, amended: an execute_user_decisions call adds deletion-log entries only
\* if its mailbox delete call reported success, and completes a run only if
\* that call reported success or no delete call was made because no email
\* of the run was mapped to delete; a call whose delete call failed adds no
\* log entry and completes no run.
C1_NoGhostDeletions ==
    IsExecute =>
        /\ deleted # before.deleted => DeleteSucceeded
        /\ Completed # {} => DeleteSucceeded \/ ~last.delete_called
        /\ DeleteFailed => deleted = before.deleted /\ Completed = {}

\* A call whose delete call, for two messages, reported failure.
C1_Witness ==
    IsExecute /\ DeleteFailed /\ Len(last.delete_ids) = 2

----------------------------------------------------------------------------
(* C2 *)

\* C2: a call of execute_user_decisions with a run id that is not the id
\* of the run get_pending_run returns, or with no run pending, returns
\* False, calls no mailbox delete, and leaves the three tables (and the
\* mailbox) as they were.
C2_RunIdMismatchGuard ==
    IsExecute /\ (PendingBefore = NoRun \/ PendingBefore # last.run_id)
        => /\ last.result = "false"
           /\ ~last.delete_called
           /\ TablesUnchanged
           /\ trashed = before.trashed

\* A call for a run that is pending but is not the one get_pending_run
\* returns.
C2_Witness ==
    /\ IsExecute
    /\ PendingBefore \notin {NoRun, last.run_id}
    /\ last.run_id \in RunIds(runs)
    /\ runs[last.run_id].status = "pending"
    /\ last.result = "false"

----------------------------------------------------------------------------
(* C3 *)

\* C3: when the mailbox delete call of execute_user_decisions reports
\* failure, also after it trashed some of the messages, the call returns
\* False, records no decision, adds no deletion-log entry and leaves the
\* run pending.
C3_DeleteFailureAborts ==
    IsExecute /\ DeleteFailed
        => /\ last.result = "false"
           /\ TablesUnchanged
           /\ runs[last.run_id].status = "pending"
           /\ \A i \in 1..Len(rows) :
                 rows[i].run_id = last.run_id => rows[i].user_decision = Null

\* A delete call that trashed a message and then failed.
C3_Witness ==
    IsExecute /\ DeleteFailed /\ trashed # before.trashed

----------------------------------------------------------------------------
(* C4 *)

\* C4: when execute_user_decisions is called for the current pending run
\* with a decision map that covers its emails and the mailbox delete
\* reports success, the deletion log gains exactly one entry for every
\* email of the run mapped to delete and none for the others, every row of
\* the run holds the non-null decision the map gives it, and the run is
\* completed.
C4_SuccessPostState ==
    LET emails == RunEmails(before.rows, last.run_id)
        ids == {emails[i].email_id : i \in 1..Len(emails)}
    IN  /\ IsExecute
        /\ PendingBefore = last.run_id
        /\ ids \subseteq DOMAIN last.decisions
        /\ DeleteSucceeded
        => /\ last.result = "true"
           /\ SubSeq(deleted, 1, Len(before.deleted)) = before.deleted
           /\ \A j \in 1..Len(Gained) : Gained[j].email_id \in ids
           /\ \A id \in ids :
                 Cardinality({j \in 1..Len(Gained) : Gained[j].email_id = id})
                    = IF last.decisions[id] = "delete" THEN 1 ELSE 0
           /\ Len(rows) = Len(before.rows)
           /\ \A i \in 1..Len(rows) :
                 rows[i].run_id = last.run_id
                    => /\ rows[i].user_decision # Null
                       /\ rows[i].user_decision = last.decisions[rows[i].email_id]
           /\ runs[last.run_id].status = "completed"

\* A successful call for a run of two emails, one mapped to delete and one
\* to keep.
C4_Witness ==
    LET emails == RunEmails(rows, last.run_id)
    IN  /\ IsExecute
        /\ last.result = "true"
        /\ DeleteSucceeded
        /\ Len(emails) = 2
        /\ emails[1].user_decision = "delete"
        /\ emails[2].user_decision = "keep"
        /\ Len(Gained) = 1

----------------------------------------------------------------------------
(* C5 *)

\* C5: no email row of any run has a sender that contains a protected
\* substring together with the recommended action delete, and no email
\* with such a sender is passed to the recommendation engine.
C5_ProtectedSenderInvariant ==
    /\ \A i \in 1..Len(rows) :
          SenderIsProtected(rows[i]) => rows[i].recommended_action # "delete"
    /\ \A i \in 1..Len(last.submitted) : ~SenderIsProtected(last.submitted[i])
    /\ \A i \in 1..Len(last.batch) : ~SenderIsProtected(last.batch[i])

\* A page with a protected sender was fetched and analysed, and a run was
\* created from it.
C5_Witness ==
    /\ IsAnalysis
    /\ \E i \in 1..Len(last.fetched) : SenderIsProtected(last.fetched[i])
    /\ last.engine_called
    /\ last.new_run # NoRun
    /\ Len(RunEmails(rows, last.new_run)) = Len(last.fetched) - 1

----------------------------------------------------------------------------
(* C6 *)

IsStoreInsert ==
    /\ last.op \in {"save_page_analysis", "merge_reanalysis_with_new_page"}
    /\ last.new_run # NoRun

\* The row the insert wrote for the i-th email of the page: the rows of the
\* re-analysed emails come first.
NewPageRow(i) == rows[Len(before.rows) + Len(last.reanalyzed) + i]

\* C6: every email that save_page_analysis persists, or that
\* merge_reanalysis_with_new_page persists as an email of the new page, and
\* whose id is absent from the analysis map, is stored with action review,
\* category other and confidence 0.5, never with delete.
C6_DefaultRecommendation ==
    IsStoreInsert =>
        /\ Len(rows) = Len(before.rows) + Len(last.reanalyzed)
                                        + Len(last.submitted)
        /\ \A i \in 1..Len(last.submitted) :
              last.submitted[i].id \notin DOMAIN last.analysis.analysis
                 => /\ NewPageRow(i).run_id = last.new_run
                    /\ NewPageRow(i).email_id = last.submitted[i].id
                    /\ NewPageRow(i).recommended_action = "review"
                    /\ NewPageRow(i).category = "other"
                    /\ NewPageRow(i).confidence = 5
                    /\ NewPageRow(i).recommended_action # "delete"

\* A merge of re-analysed emails recommended for deletion with a page of
\* two emails whose analysis omits the first and marks the second delete.
C6_Witness ==
    /\ last.op = "merge_reanalysis_with_new_page"
    /\ last.new_run # NoRun
    /\ Len(last.submitted) = 2
    /\ last.submitted[1].id \notin DOMAIN last.analysis.analysis
    /\ last.submitted[2].id \in DOMAIN last.analysis.analysis
    /\ NewPageRow(2).recommended_action = "delete"
    /\ last.reanalyzed # <<>>
    /\ DictGet(last.reanalyzed[1], "action", Null) = "delete"

----------------------------------------------------------------------------
(* C7 *)

\* C7: when the fetched page has no emails, or every email of it has a
\* protected sender, run_paginated_analysis returns None without calling
\* the recommendation engine and without creating a run; the three tables
\* are as they were.
C7_NothingToDoCreatesNoRun ==
    /\ IsAnalysis
    /\ \A i \in 1..Len(last.fetched) : SenderIsProtected(last.fetched[i])
    => /\ ~last.engine_called
       /\ last.new_run = NoRun
       /\ last.result = "none"
       /\ TablesUnchanged
       /\ trashed = before.trashed

\* A page of protected senders only was fetched while a run existed.
C7_Witness ==
    /\ IsAnalysis
    /\ last.fetched # <<>>
    /\ \A i \in 1..Len(last.fetched) : SenderIsProtected(last.fetched[i])
    /\ runs # <<>>

----------------------------------------------------------------------------
(* C8 *)

\* The answers of the recommendation engine that are malformed: not JSON,
\* without a top-level field, or with an analysis that is no map.
Malformed == {"unparseable", "missing_fields", "bad_shape"}

\* What C8 asks of a call: no run is created, get_last_page_token is as
\* before, and a continue_from_last_page that failed is followed by one
\* that fetches with the same token.
NothingCommitted ==
    /\ last.new_run = NoRun
    /\ TablesUnchanged
    /\ GetLastPageToken(runs) = GetLastPageToken(before.runs)
    /\ last.op = "continue_from_last_page"
          => GetLastPageToken(runs) = last.page_token

----------------------------------------------------------------------------
(* C9 *)

\* C9: after every controller operation at most one run has status
\* pending.
C9_SinglePendingRun ==
    (IsAnalysis \/ IsExecute) => Cardinality(PendingRuns(runs)) <= 1

----------------------------------------------------------------------------
(* C10 *)

\* C10: when continue_from_last_page is called while the latest pending
\* run R has undecided emails and a next-page token T, and the page for T
\* is fetched and classified, then the page was fetched with T, R is
\* superseded, and exactly one new pending run holds R's undecided emails
\* and the emails of that page.
C10_RecoveryPath ==
    LET R == PendingBefore
        undecided == GetUnprocessedEmailsForRun(before.rows, R)
        merged == RunEmails(rows, last.new_run)
    IN  /\ last.op = "continue_from_last_page"
        /\ R # NoRun
        /\ undecided # <<>>
        /\ before.runs[R].next_page_token # NoToken
        /\ last.new_run # NoRun
        => /\ last.page_token = before.runs[R].next_page_token
           /\ runs[R].status = "superseded"
           /\ Len(runs) = Len(before.runs) + 1
           /\ runs[last.new_run].status = "pending"
           /\ {merged[i].email_id : i \in 1..Len(merged)}
                 = {undecided[i].email_id : i \in 1..Len(undecided)}
                      \cup Ids(last.submitted)

----------------------------------------------------------------------------
(* C11 *)

IsContinue == last.op = "continue_from_last_page"

\* C11: when continue_from_last_page is invoked twice in a row, starting
\* with a pending run R that has a next-page token T and N undecided
\* emails, and the page of T is persisted, then after the second call the
\* current pending run holds each of the N emails exactly once, and N plus
\* the emails of the page of T in all.
C11_IdempotentResume ==
    [][LET R == GetPendingRun(before.runs)
           undecided == GetUnprocessedEmailsForRun(before.rows, R)
           current == RunEmails(rows', GetPendingRun(runs'))
       IN  /\ IsContinue
           /\ last'.op = "continue_from_last_page"
           /\ R # NoRun
           /\ before.runs[R].next_page_token # NoToken
           /\ undecided # <<>>
           /\ last.page_token = before.runs[R].next_page_token
           /\ last.new_run # NoRun
           => /\ \A i \in 1..Len(undecided) :
                    Cardinality({j \in 1..Len(current) :
                        current[j].email_id = undecided[i].email_id}) = 1
              /\ Len(current) = Len(undecided) + Len(last.submitted)
      ]_vars

----------------------------------------------------------------------------
(* C12 *)

\* C12: in every reachable state every email row of a completed run has a
\* non-null user decision, whatever decision map execute_user_decisions
\* accepted, also one that omits emails of the run.
C12_CompletionRequiresFullCoverage ==
    \A i \in 1..Len(rows) :
        runs[rows[i].run_id].status = "completed"
            => rows[i].user_decision # Null

----------------------------------------------------------------------------
(* C13 *)

\* C13: once the user decision of an email row is non-null, no later
\* operation changes it.
C13_DecisionImmutability ==
    [][\A i \in 1..Len(rows) :
          rows[i].user_decision # Null
             => rows'[i].user_decision = rows[i].user_decision]_vars

----------------------------------------------------------------------------
(* C17 *)

\* C17: when an execute_user_decisions call that passed the guard fails
\* (the mailbox delete fails, or a store write raises after the delete
\* succeeded) and the call is made again with the same run id and decision
\* map and succeeds, the store is as after one successful call: the
\* deletion log has gained one entry per deleted email of the run, the
\* decisions are recorded and the run is completed.
C17_RetrySafety ==
    [][LET emails == RunEmails(before.rows, last.run_id)
       IN  /\ IsExecute
           /\ last.result = "false"
           /\ last.pending = last.run_id
           /\ last'.op = "execute_user_decisions"
           /\ last'.result = "true"
           /\ last'.run_id = last.run_id
           /\ last'.decisions = last.decisions
           => /\ deleted' = LogDeletedEmails(before.deleted,
                                DeletedEmailInfo(emails, last.decisions))
              /\ rows' = UpdateUserDecisions(before.rows, last.run_id,
                                             last.decisions)
              /\ runs' = MarkRunCompleted(before.runs, last.run_id)
      ]_vars

----------------------------------------------------------------------------
(* C14 *)

\* C14: when the run persisted last has a next-page token T, and it is
\* still pending or was completed by execute_user_decisions, the next
\* continue_from_last_page fetches the page with token T.
C14_ResumePointSurvivesReview ==
    LET n == Len(before.runs)
    IN  /\ IsContinue
        /\ n > 0
        /\ before.runs[n].next_page_token # NoToken
        /\ before.runs[n].status \in {"pending", "completed"}
        => last.page_token = before.runs[n].next_page_token

----------------------------------------------------------------------------
(* C15 *)

\* The email rows the call inserted.
NewRows == SubSeq(rows, Len(before.rows) + 1, Len(rows))

\* C15: a run_paginated_analysis or continue_from_last_page call fetches
\* one page, that of the token it was given, and creates at most one run,
\* of emails of that page only; the token it stores is that of the
\* following page, which it has not fetched.
C15_NoAutoAdvance ==
    LET page == InboxPage(last.page_token)
    IN  IsAnalysis =>
          /\ last.fetched \in {<<>>, page.emails}
          /\ Len(runs) <= Len(before.runs) + 1
          /\ SubSeq(runs, 1, Len(before.runs)) = before.runs
          /\ SubSeq(rows, 1, Len(before.rows)) = before.rows
          /\ \A i \in 1..Len(NewRows) :
                /\ NewRows[i].run_id = last.new_run
                /\ NewRows[i].email_id \in Ids(page.emails)
          /\ last.new_run # NoRun =>
                /\ last.new_run = Len(before.runs) + 1
                /\ runs[last.new_run].current_page_token = last.page_token
                /\ runs[last.new_run].next_page_token = page.next_page_token

\* A continue_from_last_page that persisted a page which has a following
\* page.
C15_Witness ==
    /\ IsContinue
    /\ last.new_run # NoRun
    /\ last.page_token # NoToken
    /\ last.has_more_pages
    /\ runs[last.new_run].next_page_token # NoToken

----------------------------------------------------------------------------
(* C16 *)

IsAnalysisCall(call) ==
    call.op \in {"run_paginated_analysis", "continue_from_last_page"}

\* The call found nothing to do: the page was fetched and had no email, or
\* none that passed the filters.
NothingToDo(call) ==
    IsAnalysisCall(call) /\ ~call.fetch_failed /\ ~call.engine_called

\* The call failed: the fetch raised, or the classification gave nothing
\* that could be persisted.
FetchOrClassificationFailed(call) ==
    /\ IsAnalysisCall(call)
    /\ \/ call.fetch_failed
       \/ call.engine_called /\ call.engine \in Malformed

\* C16: the value process-next-page returns when there is nothing to do
\* differs from the value it returns when the fetch or the classification
\* failed (stated of two calls in a row).
C16_EmptyDistinguishedFromFailure ==
    [][NothingToDo(last) /\ FetchOrClassificationFailed(last')
          => last.result # last'.result]_vars

----------------------------------------------------------------------------
(* C18 *)

\* The page was processed with the fallback result: a run was created in
\* which every email of the batch is marked review with confidence 0.5,
\* with no recommended deletion.
ProcessedWithFallback ==
    /\ last.new_run # NoRun
    /\ last.result = "page"
    /\ Len(NewRows) = Len(last.submitted)
    /\ \A i \in 1..Len(NewRows) :
          /\ NewRows[i].email_id = last.submitted[i].id
          /\ NewRows[i].recommended_action = "review"
          /\ NewRows[i].confidence = 5
    /\ runs[last.new_run].recommended_deletions = 0
    /\ runs[last.new_run].needs_review = Len(last.submitted)

\* C18 as stated: when the engine's output is not parseable or lacks a
\* top-level field, the page is processed with the fallback result.
C18_MalformedOutputFallback ==
    IsAnalysis /\ last.engine_called
        /\ last.engine \in {"unparseable", "missing_fields"}
        => ProcessedWithFallback

\* C18, amended: when the call to the engine raises (network or API
\* error), the page is processed with the fallback result.
C18_ApiErrorFallback ==
    IsAnalysis /\ last.engine_called /\ last.engine = "api_error"
        => ProcessedWithFallback

\* A page of two emails processed after the call to the engine raised.
C18_Witness ==
    /\ IsAnalysis
    /\ last.engine = "api_error"
    /\ Len(last.submitted) = 2
    /\ last.new_run # NoRun

----------------------------------------------------------------------------
(* C19 *)

Highest(S) == CHOOSE x \in S : \A y \in S : y <= x

\* C19: get_pending_run returns None exactly when no run is pending;
\* otherwise it returns the pending run created last, the one of the
\* largest id, with exactly the email rows of that run, also when pending
\* runs were created within the same second.
C19_GetPendingRun ==
    LET pending == GetPendingRun(runs)
        emails == RunEmails(rows, pending)
    IN  /\ pending = NoRun <=> PendingRuns(runs) = {}
        /\ pending # NoRun =>
              /\ pending = Highest(PendingRuns(runs))
              /\ \A i \in 1..Len(emails) : emails[i].run_id = pending
              /\ Len(emails) = Cardinality({i \in 1..Len(rows) :
                                               rows[i].run_id = pending})

----------------------------------------------------------------------------
(* C20 *)

\* C20: get_last_page_token returns the next-page token of the run created
\* last among the pending runs that have one, and None when there is no
\* such run.
C20_GetLastPageToken ==
    LET withNext == {i \in PendingRuns(runs) :
                        runs[i].next_page_token # NoToken}
    IN  GetLastPageToken(runs) =
            IF withNext = {}
            THEN NoToken
            ELSE runs[Highest(withNext)].next_page_token

----------------------------------------------------------------------------
(* C21 *)

IsUpdate == last.op = "update_user_decisions"

\* C21: update_user_decisions(run_id, map) sets the decision of exactly the
\* rows of run run_id whose email id is a key of the map, to the value the
\* map gives; the rows of that run whose id is not in the map keep their
\* decision (null stays null), the rows of every other run, also those with
\* the same email id, are unchanged, and so are the other tables.
C21_NoInferredDefaults ==
    IsUpdate =>
        /\ Len(rows) = Len(before.rows)
        /\ \A i \in 1..Len(rows) :
              IF /\ before.rows[i].run_id = last.run_id
                 /\ before.rows[i].email_id \in DOMAIN last.decisions
              THEN rows[i] = [before.rows[i] EXCEPT !.user_decision =
                                 last.decisions[before.rows[i].email_id]]
              ELSE rows[i] = before.rows[i]
        /\ runs = before.runs
        /\ deleted = before.deleted

\* An update of one email of a run of two, while another run holds a row
\* of the same email id: the second email of the run and the row of the
\* other run are still undecided.
C21_Witness ==
    /\ IsUpdate
    /\ \E i, j, k \in 1..Len(rows) :
          /\ rows[i].run_id = last.run_id
          /\ rows[i].email_id \in DOMAIN last.decisions
          /\ rows[i].user_decision = "keep"
          /\ rows[j].run_id = last.run_id
          /\ rows[j].email_id \notin DOMAIN last.decisions
          /\ rows[j].user_decision = Null
          /\ rows[k].run_id # last.run_id
          /\ rows[k].email_id = rows[i].email_id
          /\ rows[k].user_decision = Null

----------------------------------------------------------------------------
(* C22 *)

\* An email row without its decision fields.
WithoutDecision(row) == [row EXCEPT !.user_decision = Null]

\* C22: the email rows of a run are fixed when the run is created: no
\* operation removes a row or adds one to a run that existed before it, and
\* no operation changes a field of an existing row other than the user
\* decision.
C22_EmailSetFixed ==
    /\ Len(rows) >= Len(before.rows)
    /\ \A i \in 1..Len(before.rows) :
          WithoutDecision(rows[i]) = WithoutDecision(before.rows[i])
    /\ \A i \in (Len(before.rows) + 1)..Len(rows) :
          rows[i].run_id \notin RunIds(before.runs)

\* A merge created a run of re-analysed emails while the run they came
\* from, with a decision recorded on one of its rows, still has all its
\* rows.
C22_Witness ==
    /\ last.op = "merge_reanalysis_with_new_page"
    /\ last.new_run # NoRun
    /\ last.reanalyzed # <<>>
    /\ \E i \in 1..Len(before.rows) :
          rows[i].user_decision # Null /\ rows[i].run_id # last.new_run
    /\ \E i \in 1..Len(before.rows) :
          rows[i].user_decision = Null
             /\ rows[i].email_id \in Ids(last.reanalyzed)

----------------------------------------------------------------------------
(* C23 *)

\* C23: the deletion log is append-only and truthful: no call removes or
\* changes an entry, the entries a call adds are of messages it passed to
\* a mailbox delete call that reported success, and every entry is of a
\* message that was moved to trash.
C23_DeletionLogTruthful ==
    /\ Len(deleted) >= Len(before.deleted)
    /\ SubSeq(deleted, 1, Len(before.deleted)) = before.deleted
    /\ Gained # <<>> =>
          /\ last.delete_called
          /\ last.delete_ok
          /\ \A j \in 1..Len(Gained) :
                \E k \in 1..Len(last.delete_ids) :
                    last.delete_ids[k] = Gained[j].email_id
    /\ \A i \in 1..Len(deleted) : deleted[i].email_id \in trashed

\* A call added an entry to a log that already held one.
C23_Witness ==
    /\ IsExecute
    /\ before.deleted # <<>>
    /\ Gained # <<>>

----------------------------------------------------------------------------
(* C24 *)

\* C24: the deletion log holds at most one entry per message id, also when
\* the message is an email of more than one run and deletions are applied
\* for each of the runs.
C24_OneEntryPerMessage ==
    \A i, j \in 1..Len(deleted) :
        deleted[i].email_id = deleted[j].email_id => i = j

----------------------------------------------------------------------------
(* C25 *)

\* C25: the stored user decision of every email row is delete, keep or
\* null, whatever the values of the decision map that was accepted.
C25_DecisionDomain ==
    \A i \in 1..Len(rows) : rows[i].user_decision \in {"delete", "keep", Null}

----------------------------------------------------------------------------
(* C26 *)

\* The analysis makes the building of the email rows raise: its 'analysis'
\* is missing or is no map, and there is an email to build a row for.
RowBuildingFails ==
    /\ last.submitted # <<>>
    /\ \/ "analysis" \notin DOMAIN last.analysis
       \/ last.analysis.analysis = JsonList

\* C26: save_page_analysis and merge_reanalysis_with_new_page insert the
\* run header and all email rows of the run in one transaction: a call
\* that fails while building the rows leaves the tables as they were, a
\* call that commits adds one header and a row for every email given to
\* it, and every row belongs to a run that has a header.
C26_AtomicRunCreation ==
    /\ \A i \in 1..Len(rows) : rows[i].run_id \in RunIds(runs)
    /\ last.op \in {"save_page_analysis", "merge_reanalysis_with_new_page"} =>
          /\ RowBuildingFails => last.new_run = NoRun
          /\ IF last.new_run = NoRun
             THEN TablesUnchanged
             ELSE /\ Len(runs) = Len(before.runs) + 1
                  /\ SubSeq(runs, 1, Len(before.runs)) = before.runs
                  /\ last.new_run = Len(runs)
                  /\ SubSeq(rows, 1, Len(before.rows)) = before.rows
                  /\ Len(NewRows) = Len(last.reanalyzed) + Len(last.submitted)
                  /\ \A i \in 1..Len(NewRows) : NewRows[i].run_id = last.new_run

\* A merge of re-analysed emails with a page of two emails raised while
\* building the rows of the page, after the header insert.
C26_Witness ==
    /\ last.op = "merge_reanalysis_with_new_page"
    /\ RowBuildingFails
    /\ last.reanalyzed # <<>>
    /\ Len(last.submitted) = 2
    /\ last.new_run = NoRun
    /\ runs # <<>>

----------------------------------------------------------------------------
(* C27 *)

\* The number of re-analysed emails of the call whose action is this one.
ReanalyzedWith(action) ==
    Cardinality({i \in 1..Len(last.reanalyzed) :
                    DictGet(last.reanalyzed[i], "action", Null) = action})

\* The count the summary of the call's new analysis gives under this key.
NewSummaryCount(key) ==
    DictGet(DictGet(last.analysis, "summary", EmptyDict), key, 0)

\* C27: a merge_reanalysis_with_new_page(re, new_analysis, new, cur, next)
\* that commits creates exactly one new pending run, with one row for every
\* email of re and of new, in that order, with total count
\* len(re) + len(new), with each of the delete, review and keep counts the
\* count over re plus the count of new_analysis's summary, and with the
\* tokens cur and next; it changes no existing run.
C27_MergeCreatesOneRun ==
    LET n == last.new_run
        given == last.reanalyzed \o last.submitted
    IN  last.op = "merge_reanalysis_with_new_page" /\ n # NoRun =>
          /\ Len(runs) = Len(before.runs) + 1
          /\ SubSeq(runs, 1, Len(before.runs)) = before.runs
          /\ n = Len(runs)
          /\ runs[n].status = "pending"
          /\ Len(RunEmails(rows, n)) = Len(given)
          /\ \A i \in 1..Len(given) : RunEmails(rows, n)[i].email_id = given[i].id
          /\ runs[n].total_emails = Len(given)
          /\ runs[n].recommended_deletions =
                ReanalyzedWith("delete") + NewSummaryCount("recommended_deletions")
          /\ runs[n].needs_review =
                ReanalyzedWith("review") + NewSummaryCount("needs_review")
          /\ runs[n].keep_emails =
                ReanalyzedWith("keep") + NewSummaryCount("keep")
          /\ runs[n].current_page_token = last.page_token
          /\ runs[n].next_page_token = InboxPage(last.page_token).next_page_token

\* A merge of a re-analysed email recommended for deletion with a page of
\* two emails committed.
C27_Witness ==
    /\ last.op = "merge_reanalysis_with_new_page"
    /\ last.new_run # NoRun
    /\ ReanalyzedWith("delete") >= 1
    /\ Len(last.submitted) = 2
    /\ runs[last.new_run].recommended_deletions
          > NewSummaryCount("recommended_deletions")

----------------------------------------------------------------------------
(* C28 *)

\* The rows of a run that hold a decision, and those that hold none.
Decided(run_id) ==
    {i \in 1..Len(rows) : rows[i].run_id = run_id /\ rows[i].user_decision # Null}

Undecided(run_id) ==
    {i \in 1..Len(rows) : rows[i].run_id = run_id /\ rows[i].user_decision = Null}

\* C28: get_incomplete_run_info reports, for the latest pending run,
\* processed = the number of its rows with a decision, remaining = the
\* number without, processed + remaining = its number of rows,
\* needs_reanalysis exactly when remaining > 0, and percentage 0 when it
\* has no rows; get_run_progress reports the same counts for any run, with
\* is_complete exactly when processed = total.
C28_ConsistentProgressCounting ==
    LET info == last.info
    IN  /\ last.op = "get_incomplete_run_info" =>
              IF PendingRuns(runs) = {}
              THEN info = PyNone
              ELSE /\ info.run_id = GetPendingRun(runs)
                   /\ info.processed_count = Cardinality(Decided(info.run_id))
                   /\ info.remaining_count = Cardinality(Undecided(info.run_id))
                   /\ info.processed_count + info.remaining_count
                         = info.total_emails_in_run
                   /\ info.total_emails_in_run
                         = Cardinality(Decided(info.run_id)
                                          \cup Undecided(info.run_id))
                   /\ info.needs_reanalysis <=> info.remaining_count > 0
                   /\ info.total_emails_in_run = 0
                         => info.progress_percentage = 0
        /\ last.op = "get_run_progress" =>
              IF last.run_id \notin RunIds(runs)
              THEN info = PyNone
              ELSE /\ info.processed_count = Cardinality(Decided(last.run_id))
                   /\ info.remaining_count = Cardinality(Undecided(last.run_id))
                   /\ info.processed_count + info.remaining_count
                         = info.total_emails
                   /\ info.is_complete
                         <=> info.processed_count = info.total_emails
                   /\ info.total_emails = 0 => info.progress_percentage = 0

\* get_incomplete_run_info reported on a pending run of two emails with one
\* decided, half done, while another run has undecided emails too.
C28_Witness ==
    /\ last.op = "get_incomplete_run_info"
    /\ last.info # PyNone
    /\ last.info.total_emails_in_run = 2
    /\ last.info.processed_count = 1
    /\ last.info.progress_percentage = 500
    /\ last.info.needs_reanalysis
    /\ \E r \in RunIds(runs) \ {last.info.run_id} : Undecided(r) # {}

----------------------------------------------------------------------------
(* C29 *)

\* The handler execute_deletions called execute_user_decisions.
IsWebExecute == IsExecute /\ last.handler = "execute_deletions"

\* C29: the map the web handler execute_deletions passes to
\* execute_user_decisions has exactly one entry for every email of the
\* current pending run, delete if its id was selected and keep otherwise,
\* and after a successful submission every email of the run holds the
\* non-null decision of that map.
C29_SurfaceDefaultsToKeep ==
    LET emails == RunEmails(before.rows, PendingBefore)
        ids == {emails[i].email_id : i \in 1..Len(emails)}
    IN  IsWebExecute =>
          /\ last.run_id = PendingBefore
          /\ DOMAIN last.decisions = ids
          /\ \A id \in ids :
                last.decisions[id] =
                    IF id \in last.selected THEN "delete" ELSE "keep"
          /\ last.result = "true" =>
                \A i \in 1..Len(rows) :
                    rows[i].run_id = last.run_id =>
                        /\ rows[i].user_decision # Null
                        /\ rows[i].user_decision
                              = last.decisions[rows[i].email_id]

\* A successful submission for a run of two emails with one of them
\* selected: the other is recorded as keep.
C29_Witness ==
    LET emails == RunEmails(rows, last.run_id)
    IN  /\ IsWebExecute
        /\ last.result = "true"
        /\ Cardinality(last.selected) = 1
        /\ Len(emails) = 2
        /\ \E i, j \in 1..2 :
              /\ emails[i].user_decision = "delete"
              /\ emails[j].user_decision = "keep"
              /\ emails[j].email_id \notin last.selected

----------------------------------------------------------------------------
(* C30 *)

----------------------------------------------------------------------------
(* C31 *)

\* The call passed the run-id guard.
PassedGuard == IsExecute /\ last.pending # NoRun /\ last.pending = last.run_id

\* The deletion-log entries the call had to write.
ToLog == DeletedEmailInfo(RunEmails(before.rows, last.run_id), last.decisions)

\* The call has recorded the decisions submitted to it.
DecisionsRecorded ==
    rows = UpdateUserDecisions(before.rows, last.run_id, last.decisions)

\* C31: the steps of one execute_user_decisions call occur in the order
\* mailbox delete, deletion-log write, decision write, mark completed:
\* wherever the call stops, a log entry was written only after the mailbox
\* delete reported success, a decision only after the log was written, and
\* the run is completed only with the decisions recorded, the log written
\* and the approved messages in the trash.
C31_StepOrder ==
    PassedGuard =>
        /\ deleted # before.deleted =>
              /\ DeleteSucceeded
              /\ deleted = LogDeletedEmails(before.deleted, ToLog)
        /\ rows # before.rows =>
              /\ DecisionsRecorded
              /\ ~DeleteFailed
              /\ deleted = LogDeletedEmails(before.deleted, ToLog)
        /\ Completed # {} =>
              /\ Completed = {last.run_id}
              /\ DecisionsRecorded
              /\ deleted = LogDeletedEmails(before.deleted, ToLog)
              /\ \A i \in 1..Len(ToLog) : ToLog[i].email_id \in trashed

\* A call stopped between the decision write and mark completed: the
\* messages are trashed and logged, the decisions recorded, the run is
\* still pending.
C31_Witness ==
    /\ PassedGuard
    /\ last.fault = "complete"
    /\ DeleteSucceeded
    /\ Gained # <<>>
    /\ rows # before.rows
    /\ runs[last.run_id].status = "pending"

----------------------------------------------------------------------------
(* C32 *)

\* A run_paginated_analysis call that created a run.
CreatedRun == IsAnalysis /\ last.new_run # 0

\* C32: every run created by run_paginated_analysis stores as current page
\* token the token passed to the page fetch and as next page token the token
\* the mailbox returned for that page, and the returned has_more_pages flag
\* is true exactly when that next page token is non-null.
C32_TokenBookkeeping ==
    CreatedRun =>
        /\ runs[last.new_run].current_page_token = last.page_token
        /\ runs[last.new_run].next_page_token
              = FullInboxPage(last.page_token).next_page_token
        /\ last.next_page_token = runs[last.new_run].next_page_token
        /\ last.has_more_pages
              <=> (runs[last.new_run].next_page_token # NoToken)

\* A run was created for the last page of the mailbox, fetched with the
\* token the run of the first page stored: no next token, no more pages.
C32_Witness ==
    /\ CreatedRun
    /\ last.new_run = 2
    /\ last.page_token = runs[1].next_page_token
    /\ last.page_token # NoToken
    /\ runs[2].next_page_token = NoToken
    /\ ~last.has_more_pages

----------------------------------------------------------------------------
(* C33 *)

\* C33: every email persisted in a run created by run_paginated_analysis
\* was included in the batch submitted to the recommendation engine for
\* that page, for every page size up to the configured maximum.
C33_WholeBatchClassified ==
    CreatedRun =>
        \A i \in 1..Len(rows) :
            rows[i].run_id = last.new_run
                => rows[i].email_id \in Ids(last.batch)

----------------------------------------------------------------------------
(* C34 *)

\* execute_user_decisions was called with the id of a run that was already
\* completed when the call began.
ForCompletedRun ==
    /\ IsExecute
    /\ last.run_id \in RunIds(before.runs)
    /\ before.runs[last.run_id].status = "completed"

\* C34: deletions of a run are executed at most once: a run that is completed
\* stays completed, and every execute_user_decisions call with the id of a
\* completed run fails the run-id guard, makes no mailbox delete call and
\* adds no deletion-log entry.
C34_DeletionsAtMostOnce ==
    /\ \A r \in RunIds(before.runs) :
          before.runs[r].status = "completed" => runs[r].status = "completed"
    /\ ForCompletedRun =>
          /\ last.result = "false"
          /\ ~last.delete_called
          /\ trashed = before.trashed
          /\ TablesUnchanged

\* The run was completed by a call that trashed a message, another run is
\* pending, and the call names the completed run again.
C34_Witness ==
    /\ ForCompletedRun
    /\ last.pending # NoRun
    /\ \E i \in 1..Len(rows) :
          /\ rows[i].run_id = last.run_id
          /\ rows[i].user_decision = "delete"
          /\ rows[i].email_id \in trashed

----------------------------------------------------------------------------
(* C35 *)

\* The email ids of the run the call names, as the call began.
IdsOfRun ==
    {r.email_id : r \in {before.rows[i] : i \in
        {j \in 1..Len(before.rows) : before.rows[j].run_id = last.run_id}}}

\* Those of them the decision map maps to delete.
MappedToDelete ==
    {id \in IdsOfRun : DictGet(last.decisions, id, Null) = "delete"}

\* C35: the ids execute_user_decisions passes to the mailbox delete call are
\* exactly the email ids of the current pending run that the map maps to
\* delete; ids of the map that are not in that run are never sent, and when
\* no email of the run is mapped to delete no delete call is made.  The trash
\* gains no other message.
C35_OnlyRunEmailsTrashed ==
    IsExecute =>
        /\ last.delete_called =>
              /\ PassedGuard
              /\ {last.delete_ids[i] : i \in 1..Len(last.delete_ids)}
                    = MappedToDelete
        /\ PassedGuard => (last.delete_called <=> MappedToDelete # {})
        /\ ~last.delete_called => last.delete_ids = <<>>
        /\ (trashed \ before.trashed) \subseteq MappedToDelete

\* The map names a message of no run with delete and no email of the run:
\* the call passed the guard, made no delete call and completed the run.
C35_Witness ==
    /\ PassedGuard
    /\ DictGet(last.decisions, ForeignId, Null) = "delete"
    /\ IdsOfRun # {}
    /\ ~last.delete_called
    /\ last.result = "true"
    /\ trashed = before.trashed

----------------------------------------------------------------------------
(* C36 *)

\* The messages of the mailbox whose sender contains a protected entry.
ProtectedMessages == {m \in {E1, E2, E3, E4, E5} : SenderIsProtected(m)}

\* C36: with a fixed protected-sender list, in any sequence of
\* run_paginated_analysis, continue_from_last_page and
\* execute_user_decisions, no message whose sender contains a protected
\* entry is passed to the mailbox delete call, whatever the decision map:
\* such a message is in no run, in no delete call and not in the trash.
C36_ProtectedNeverTrashed ==
    \A m \in ProtectedMessages :
        /\ \A i \in 1..Len(rows) : rows[i].email_id # m.id
        /\ \A i \in 1..Len(last.delete_ids) : last.delete_ids[i] # m.id
        /\ m.id \notin trashed

\* The run of the first page, which lists a protected and an unprotected
\* message, was reviewed with every email mapped to delete: the unprotected
\* message is in the trash, the protected one is not.
C36_Witness ==
    /\ PassedGuard /\ DeleteSucceeded
    /\ before.runs[last.run_id].current_page_token = NoToken
    /\ \A id \in DOMAIN last.decisions : last.decisions[id] = "delete"
    /\ E1 \in ProtectedMessages
    /\ E2.id \in trashed
    /\ E1.id \notin trashed

----------------------------------------------------------------------------
(* C37 *)

\* The number of email rows of a run, and of those with an action.
RowsOfRun(r) == {i \in 1..Len(rows) : rows[i].run_id = r}

RowsWithAction(r, action) ==
    {i \in RowsOfRun(r) : rows[i].recommended_action = action}

\* C37: for every run the stored total email count equals the number of
\* email rows of that run, and the stored delete, review and keep counts
\* equal the numbers of its rows with that recommended action.
C37_HeaderCountsMatchRows ==
    \A r \in RunIds(runs) :
        /\ runs[r].total_emails = Cardinality(RowsOfRun(r))
        /\ runs[r].recommended_deletions
              = Cardinality(RowsWithAction(r, "delete"))
        /\ runs[r].needs_review = Cardinality(RowsWithAction(r, "review"))
        /\ runs[r].keep_emails = Cardinality(RowsWithAction(r, "keep"))

----------------------------------------------------------------------------
(* C38 *)

IsPending(r) == r \in RunIds(runs) /\ runs[r].status = "pending"

IsCompleted(r) == r \in RunIds(runs) /\ runs[r].status = "completed"

\* C38: if eventually no further pages are processed and every
\* execute_user_decisions call targets the run returned by get_pending_run
\* with a succeeding mailbox, every run that is pending is eventually
\* completed: an older pending run becomes the current pending run once the
\* pending runs created after it are completed.
C38_PendingEventuallyCompleted ==
    \A r \in 1..(MaxRuns + 1) : IsPending(r) ~> IsCompleted(r)

\* The review completed the older run after the run created after it had
\* been completed.
C38_Witness ==
    /\ IsExecute /\ last.result = "true"
    /\ last.run_id = 1
    /\ before.runs[1].status = "pending"
    /\ IsCompleted(1)
    /\ IsCompleted(2)
    /\ before.runs[2].status = "completed"
    /\ runs[2].created_at > runs[1].created_at

----------------------------------------------------------------------------
(* C39 *)

\* A selection was submitted to execute_deletions for the run that was the
\* current pending run, and the mailbox did not fail.
SubmittedForPendingRun ==
    /\ last.handler = "execute_deletions"
    /\ PendingBefore # NoRun
    /\ last.run_id = PendingBefore
    /\ ~DeleteFailed

\* C39: for every selection of emails submitted to execute_deletions for the
\* current pending run, the empty selection included, and with a succeeding
\* mailbox, the decisions are recorded for every email of the run and the
\* run becomes completed.
C39_KeepEverythingCompletable ==
    SubmittedForPendingRun =>
        /\ runs[last.run_id].status = "completed"
        /\ \A i \in 1..Len(rows) :
              rows[i].run_id = last.run_id => rows[i].user_decision # Null

====
